---- MODULE Spec2Model ----
(***************************************************************************)
(* Model of synthio_midi_synth.py: the MIDI receive/dispatch loop, the     *)
(* note_on / note_off handlers, the three controller branches, and the     *)
(* part of the synthio renderer the handlers talk to (press / release).    *)
(*                                                                         *)
(* Python objects are modelled as a heap: `voices` is the sequence of all  *)
(* synthio.Note objects ever constructed, and an object's identity is its  *)
(* index in that sequence.  notes_pressed and the renderer hold indices.   *)
(*                                                                         *)
(* Reals are fixed point.  mod_val, bend_depth and bend_rate are integer   *)
(* multiples of 1/FP (FP = 2*127), which represents value/127, 0.5*mod_val *)
(* and 20*mod_val exactly for every 7-bit value.  A voice's frequency is   *)
(* kept as its ratio to midi_to_hz(notenum), in millionths.                *)
(*                                                                         *)
(* random.random() is a function of the generator's state: `rng` is that   *)
(* state, Random gives the number drawn in it (in thousandths), and every  *)
(* draw advances it.  The generator cycles through the least, a middle and  *)
(* the largest number.  Spec starts it in state 0 (the properties checked  *)
(* under Spec read no frequency); SpecInputs starts it in any state.       *)
(***************************************************************************)
EXTENDS Integers, Sequences, FiniteSets, TLC

\* ---------------------------------------------------------------- bounds
\* Number of messages the loop receives in a checked behaviour.
MaxEvents == 3

\* Inputs the MIDI transport delivers in the checked behaviours.
NoteNums == {60, 62}
Velocities == {0, 64}
CtrlValues == {0, 64, 127}
OtherControls == {7}
OtherTypes == {"None", "PitchBend"}

\* Inputs the state predicates quantify over in every reachable state.
AllVelocities == {0, 1, 64, 127}
AllControls == {0, 1, 2, 7, 64, 81, 82, 83, 84, 127}
AllTypes == {"None", "PitchBend", "ProgramChange"}

\* Inputs of the behaviours that start with one message of any data value:
\* the data bytes of that message, and the note messages that follow it.
MidiValues == 0..127
LaterVelocities == {100}
LaterOffVelocities == {64}

\* ------------------------------------------------------------- constants
waveforms == <<"wave_saw", "wave_squ", "wave_sin", "wave_sin_dirty", "wave_noise">>
max_oscs == 5
FP == 2 * 127
\* osc_detune = 0.01, in millionths
Micro == 1000 * 1000
osc_detune == 10000

\* random.random(), in thousandths, by generator state
RandomOut == <<0, 500, 999>>
RngStates == 0..(Len(RandomOut) - 1)
Random(r) == RandomOut[(r % Len(RandomOut)) + 1]

\* ----------------------------------------------------------------- state
VARIABLES
    notes_pressed,  \* dict: note number -> list of voice ids
    voices,         \* heap of synthio.Note objects, id = index
    pressed,        \* renderer: voices pressed and not released
    released,       \* renderer: voices handed to synth.release, in order
    wave_i,         \* which waveform to play
    num_oscs,       \* how many oscillators per note
    mod_val,        \* modulation value, in units of 1/FP
    raised,         \* an exception escaped the loop body
    rng,            \* state of the random number generator
    pc,             \* where the loop is: "receive", or inside the controller 1
                    \* loops about to write "depth" or "rate" of Head(todo)
    todo,           \* the voices the controller 1 loops have yet to finish
    old_mod,        \* mod_val before the latest controller 1 change
    writes,         \* per voice, the writes of the latest controller 1 change
    seen,           \* renderer: the vibrato fields it read last, per voice
    events          \* the messages received so far, in order

vars == <<notes_pressed, voices, pressed, released, wave_i, num_oscs, mod_val, raised, rng,
          pc, todo, old_mod, writes, seen, events>>
loop_vars == <<pc, todo, old_mod, writes, seen>>

\* The engine state as one value, so that the handlers are operators on it.
State ==
    [notes_pressed |-> notes_pressed, voices |-> voices, pressed |-> pressed,
     released |-> released, wave_i |-> wave_i, num_oscs |-> num_oscs,
     mod_val |-> mod_val, raised |-> raised, rng |-> rng]

\* ------------------------------------------------------------- messages
Msg(t, n, vel, c, val) ==
    [type |-> t, note |-> n, velocity |-> vel, control |-> c, value |-> val]
NoteOn(n, vel) == Msg("NoteOn", n, vel, 0, 0)
NoteOff(n, vel) == Msg("NoteOff", n, vel, 0, 0)
ControlChange(c, val) == Msg("ControlChange", 0, 0, c, val)
OtherMsg(t) == Msg(t, 0, 0, 0, 0)

\* --------------------------------------------------------------- helpers
Range(s) == {s[i] : i \in DOMAIN s}
Max(a, b) == IF a >= b THEN a ELSE b

\* dict operations
EmptyDict == [k \in {} |-> <<>>]
DictSet(d, k, v) == [x \in (DOMAIN d) \cup {k} |-> IF x = k THEN v ELSE d[x]]
DictDel(d, k) == [x \in (DOMAIN d) \ {k} |-> d[x]]

\* every voice id held by the active note table
TableVoices(d) == UNION {Range(d[k]) : k \in DOMAIN d}

\* ---------------------------------------------------------------- synth
synth_press(st, ids) ==
    [st EXCEPT !.pressed = @ \cup Range(ids)]

synth_release(st, ids) ==
    [st EXCEPT !.pressed = @ \ Range(ids), !.released = @ \o ids]

\* --------------------------------------------------------------- note_on
\* the attack time without the max(0, ...)
AttackTime_unclamped(vel) == 2 * (1270 - 12 * vel)

\* at_time = max(0, 2 * (127-(vel*1.2)) / 127), in units of 1/1270 s
AttackTime(vel) == Max(0, 2 * (1270 - 12 * vel))

\* synthio.Envelope(attack_time=at_time, decay_time=0.05, release_time=0.8,
\*                  attack_level=1, sustain_level=0.8)
\* attack_time in units of 1/1270 s, the four constants in units of 1/100
Envelope(vel) ==
    [attack_time |-> AttackTime(vel), decay_time |-> 5, release_time |-> 80,
     attack_level |-> 100, sustain_level |-> 80]

BendDepth(m) == m \div 2
BendRate(m) == 20 * m

\* waveforms[i] with Python's indexing: negative indices count from the end,
\* anything else outside the tuple raises IndexError.
IndexOk(i) == i >= -Len(waveforms) /\ i < Len(waveforms)
WaveformAt(i) == IF i >= 0 THEN i ELSE i + Len(waveforms)

\* a voice whose frequency leaves the detune term out
NewVoice_no_detune(st, notenum, vel, i) ==
    [notenum |-> notenum, osc |-> i, envelope |-> Envelope(vel),
     ratio |-> Micro + Random(st.rng + i),
     waveform |-> WaveformAt(st.wave_i),
     bend_depth |-> BendDepth(st.mod_val), bend_rate |-> BendRate(st.mod_val)]

\* fr = f * (1 + (osc_detune*i) + (random.random()/1000)): ratio is fr/f
NewVoice(st, notenum, vel, i) ==
    [notenum |-> notenum, osc |-> i, envelope |-> Envelope(vel),
     ratio |-> Micro + osc_detune * i + Random(st.rng + i),
     waveform |-> WaveformAt(st.wave_i),
     bend_depth |-> BendDepth(st.mod_val), bend_rate |-> BendRate(st.mod_val)]

\* note_on with the new voices added to the key's list instead of replacing it
note_on_append(st, notenum, vel) ==
    IF ~IndexOk(st.wave_i)
    THEN [st EXCEPT !.raised = TRUE]
    ELSE LET base == Len(st.voices)
             old == IF notenum \in DOMAIN st.notes_pressed
                    THEN st.notes_pressed[notenum] ELSE <<>>
             notes == [i \in 1..st.num_oscs |-> base + i]
             objs == [i \in 1..st.num_oscs |-> NewVoice(st, notenum, vel, i - 1)]
             s1 == [st EXCEPT !.voices = @ \o objs,
                              !.rng = (@ + st.num_oscs) % Len(RandomOut),
                              !.notes_pressed = DictSet(@, notenum, old \o notes)]
         IN synth_press(s1, notes)

\* note_on without the final synth.press
note_on_no_press(st, notenum, vel) ==
    IF ~IndexOk(st.wave_i)
    THEN [st EXCEPT !.raised = TRUE]
    ELSE LET base == Len(st.voices)
             notes == [i \in 1..st.num_oscs |-> base + i]
             objs == [i \in 1..st.num_oscs |-> NewVoice(st, notenum, vel, i - 1)]
         IN [st EXCEPT !.voices = @ \o objs,
                       !.rng = (@ + st.num_oscs) % Len(RandomOut),
                       !.notes_pressed = DictSet(@, notenum, notes)]

note_on(st, notenum, vel) ==
    IF ~IndexOk(st.wave_i)
    THEN [st EXCEPT !.raised = TRUE]
    ELSE LET base == Len(st.voices)
             notes == [i \in 1..st.num_oscs |-> base + i]
             objs == [i \in 1..st.num_oscs |-> NewVoice(st, notenum, vel, i - 1)]
             s1 == [st EXCEPT !.voices = @ \o objs,
                              !.rng = (@ + st.num_oscs) % Len(RandomOut),
                              !.notes_pressed = DictSet(@, notenum, notes)]
         IN synth_press(s1, notes)

\* -------------------------------------------------------------- note_off
\* note_off indexing the dict directly: a missing key raises KeyError
note_off_unguarded(st, notenum, vel) ==
    IF notenum \in DOMAIN st.notes_pressed
    THEN [synth_release(st, st.notes_pressed[notenum])
             EXCEPT !.notes_pressed = DictDel(@, notenum)]
    ELSE [st EXCEPT !.raised = TRUE]

\* note_off without the del: the key stays in the table
note_off_no_del(st, notenum, vel) ==
    LET notes == IF notenum \in DOMAIN st.notes_pressed
                 THEN st.notes_pressed[notenum] ELSE <<>>
    IN IF notes # <<>> THEN synth_release(st, notes) ELSE st

note_off(st, notenum, vel) ==
    LET notes == IF notenum \in DOMAIN st.notes_pressed
                 THEN st.notes_pressed[notenum] ELSE <<>>
    IN IF notes # <<>>
       THEN [synth_release(st, notes) EXCEPT !.notes_pressed = DictDel(@, notenum)]
       ELSE st

\* -------------------------------------------------------- control change
\* controller 1 storing mod_val without updating the sounding voices
mod_wheel_no_broadcast(st, value) ==
    [st EXCEPT !.mod_val = (value * FP) \div 127]

mod_wheel(st, value) ==
    LET m == (value * FP) \div 127
        held == TableVoices(st.notes_pressed)
    IN [st EXCEPT !.mod_val = m,
                  !.voices = [id \in DOMAIN st.voices |->
                                 IF id \in held
                                 THEN [st.voices[id] EXCEPT !.bend_depth = BendDepth(m),
                                                            !.bend_rate = BendRate(m)]
                                 ELSE st.voices[id]]]

\* controller 82 also cutting the held Notes down to the new count
set_num_oscs_retro(st, value) ==
    LET n == 1 + (value * max_oscs) \div 127
        cut(l) == IF Len(l) > n THEN SubSeq(l, 1, n) ELSE l
    IN [st EXCEPT !.num_oscs = n,
                  !.notes_pressed = [k \in DOMAIN st.notes_pressed |->
                                        cut(st.notes_pressed[k])]]

\* controller 82 without the `1 +`
set_num_oscs_zero_based(st, value) ==
    [st EXCEPT !.num_oscs = (value * max_oscs) \div 127]

\* controller 82 rounding to the nearest count instead of truncating
set_num_oscs_round(st, value) ==
    [st EXCEPT !.num_oscs = (2 * 127 + 2 * value * max_oscs + 127) \div (2 * 127)]

\* int(1 + (value/127) * max_oscs)
set_num_oscs(st, value) ==
    [st EXCEPT !.num_oscs = 1 + (value * max_oscs) \div 127]

\* controller 83 also switching the waveform of the held voices
set_wave_i_retro(st, value) ==
    LET w == (value * (Len(waveforms) - 1)) \div 127
        held == TableVoices(st.notes_pressed)
    IN [st EXCEPT !.wave_i = w,
                  !.voices = [id \in DOMAIN st.voices |->
                                 IF id \in held
                                 THEN [st.voices[id] EXCEPT !.waveform = w]
                                 ELSE st.voices[id]]]

\* controller 83 scaling by len(waveforms) instead of len(waveforms)-1
set_wave_i_full_len(st, value) ==
    [st EXCEPT !.wave_i = (value * Len(waveforms)) \div 127]

\* controller 83 producing a one-based index
set_wave_i_one_based(st, value) ==
    [st EXCEPT !.wave_i = 1 + (value * (Len(waveforms) - 1)) \div 127]

\* controller 83 rounding to the nearest index instead of truncating
set_wave_i_round(st, value) ==
    [st EXCEPT !.wave_i = (2 * value * (Len(waveforms) - 1) + 127) \div (2 * 127)]

\* int((value/127) * (len(waveforms)-1))
set_wave_i(st, value) ==
    [st EXCEPT !.wave_i = (value * (Len(waveforms) - 1)) \div 127]

\* the controller chain ending in a plain else instead of `elif == 83`
control_change_else(st, control, value) ==
    IF control = 1 THEN mod_wheel(st, value)
    ELSE IF control = 82 THEN set_num_oscs(st, value)
    ELSE set_wave_i(st, value)

control_change(st, control, value) ==
    IF control = 1 THEN mod_wheel(st, value)
    ELSE IF control = 82 THEN set_num_oscs(st, value)
    ELSE IF control = 83 THEN set_wave_i(st, value)
    ELSE st

\* ------------------------------------------------------------- main loop
\* the first branch without its velocity test
IsNoteOn_any_velocity(msg) == msg.type = "NoteOn"

IsNoteOn(msg) == msg.type = "NoteOn" /\ msg.velocity # 0
IsNoteRelease(msg) ==
    msg.type = "NoteOff" \/ (msg.type = "NoteOn" /\ msg.velocity = 0)
IsControlChange(msg) == msg.type = "ControlChange"

LoopBody(st, msg) ==
    IF IsNoteOn(msg) THEN note_on(st, msg.note, msg.velocity)
    ELSE IF IsNoteRelease(msg) THEN note_off(st, msg.note, msg.velocity)
    ELSE IF IsControlChange(msg) THEN control_change(st, msg.control, msg.value)
    ELSE st

\* One iteration of `while True`: receive msg, run the body to completion.
Step(msg) ==
    /\ pc = "receive"
    /\ ~raised
    /\ Len(events) < MaxEvents
    /\ LET s == LoopBody(State, msg)
       IN /\ notes_pressed' = s.notes_pressed
          /\ voices' = s.voices
          /\ pressed' = s.pressed
          /\ released' = s.released
          /\ wave_i' = s.wave_i
          /\ num_oscs' = s.num_oscs
          /\ mod_val' = s.mod_val
          /\ raised' = s.raised
          /\ rng' = s.rng
    /\ events' = Append(events, msg)
    /\ UNCHANGED loop_vars

Init ==
    /\ notes_pressed = EmptyDict
    /\ voices = <<>>
    /\ pressed = {}
    /\ released = <<>>
    /\ wave_i = 0
    /\ num_oscs = 1
    /\ mod_val = 0
    /\ raised = FALSE
    /\ rng = 0
    /\ pc = "receive"
    /\ todo = <<>>
    /\ old_mod = 0
    /\ writes = [id \in {} |-> 0]
    /\ seen = [id \in {} |-> 0]
    /\ events = <<>>

RecvNoteOn == \E n \in NoteNums, v \in Velocities \ {0} : Step(NoteOn(n, v))
RecvNoteOnZero == \E n \in NoteNums : Step(NoteOn(n, 0))
RecvNoteOff == \E n \in NoteNums, v \in Velocities : Step(NoteOff(n, v))
RecvModWheel == \E val \in CtrlValues : Step(ControlChange(1, val))
RecvNumOscs == \E val \in CtrlValues : Step(ControlChange(82, val))
RecvWave == \E val \in CtrlValues : Step(ControlChange(83, val))
RecvOtherControl ==
    \E c \in OtherControls, val \in CtrlValues : Step(ControlChange(c, val))
RecvOther == \E t \in OtherTypes : Step(OtherMsg(t))

Next ==
    \/ RecvNoteOn
    \/ RecvNoteOnZero
    \/ RecvNoteOff
    \/ RecvModWheel
    \/ RecvNumOscs
    \/ RecvWave
    \/ RecvOtherControl
    \/ RecvOther

Spec == Init /\ [][Next]_vars

\* ------------------------------------------- behaviours over all data values
\* The first message received carries any 7-bit data value; the messages
\* after it are note messages.
RecvFirstControl ==
    /\ events = <<>>
    /\ \E c \in {1, 82, 83}, val \in MidiValues : Step(ControlChange(c, val))
RecvFirstNoteOn ==
    /\ events = <<>>
    /\ \E n \in NoteNums, v \in MidiValues \ {0} : Step(NoteOn(n, v))
RecvLaterNoteOn ==
    /\ events # <<>>
    /\ \E n \in NoteNums, v \in LaterVelocities : Step(NoteOn(n, v))
RecvLaterNoteOff ==
    /\ events # <<>>
    /\ \E n \in NoteNums, v \in LaterOffVelocities : Step(NoteOff(n, v))

NextInputs ==
    \/ RecvFirstControl
    \/ RecvFirstNoteOn
    \/ RecvLaterNoteOn
    \/ RecvLaterNoteOff

InitInputs ==
    /\ notes_pressed = EmptyDict
    /\ voices = <<>>
    /\ pressed = {}
    /\ released = <<>>
    /\ wave_i = 0
    /\ num_oscs = 1
    /\ mod_val = 0
    /\ raised = FALSE
    /\ rng \in RngStates
    /\ pc = "receive"
    /\ todo = <<>>
    /\ old_mod = 0
    /\ writes = [id \in {} |-> 0]
    /\ seen = [id \in {} |-> 0]
    /\ events = <<>>

SpecInputs == InitInputs /\ [][NextInputs]_vars

TypeOK ==
    /\ DOMAIN notes_pressed \subseteq NoteNums
    /\ pressed \subseteq DOMAIN voices
    /\ Range(released) \subseteq DOMAIN voices
    /\ wave_i \in Int
    /\ num_oscs \in Int
    /\ mod_val \in 0..FP
    /\ raised \in BOOLEAN

\* ------------------------- controller 1 statement by statement, and the renderer
\* The renderer runs between the statements of the loop body, so it can
\* read the voices while lines 98-101 are half way through them.  One
\* attribute assignment is one step.

\* the orders in which `for notes in notes_pressed.values()` can visit the
\* keys of d (the order of a dict is not the program's to choose), and the
\* voices in the order the two loops visit them
KeyOrders(d) ==
    {o \in [1..Cardinality(DOMAIN d) -> DOMAIN d] :
        \A i, j \in DOMAIN o : i # j => o[i] # o[j]}
RECURSIVE Flatten(_, _)
Flatten(d, o) == IF o = <<>> THEN <<>> ELSE d[Head(o)] \o Flatten(d, Tail(o))

\* n.bend_rate = ... not executed
set_bend_rate_skipped(vs, id, m) == vs

\* n.bend_depth = 0.5 * mod_val
set_bend_depth(vs, id, m) == [vs EXCEPT ![id].bend_depth = BendDepth(m)]
\* n.bend_rate = 20 * mod_val
set_bend_rate(vs, id, m) == [vs EXCEPT ![id].bend_rate = BendRate(m)]

\* line 97, and entering the loops of lines 98-99
ModBegin ==
    /\ pc = "receive"
    /\ ~raised
    /\ Len(events) < MaxEvents
    /\ \E val \in CtrlValues, o \in KeyOrders(notes_pressed) :
          /\ mod_val' = (val * FP) \div 127
          /\ old_mod' = mod_val
          /\ todo' = Flatten(notes_pressed, o)
          /\ writes' = [id \in TableVoices(notes_pressed) |->
                           [bend_depth |-> 0, bend_rate |-> 0]]
          /\ pc' = IF todo' = <<>> THEN "receive" ELSE "depth"
          /\ events' = Append(events, ControlChange(1, val))
    /\ UNCHANGED <<notes_pressed, voices, pressed, released, wave_i, num_oscs,
                   raised, rng, seen>>

\* line 100
WriteDepth ==
    /\ pc = "depth"
    /\ voices' = set_bend_depth(voices, Head(todo), mod_val)
    /\ writes' = [writes EXCEPT ![Head(todo)].bend_depth = @ + 1]
    /\ pc' = "rate"
    /\ UNCHANGED <<notes_pressed, pressed, released, wave_i, num_oscs, mod_val,
                   raised, rng, todo, old_mod, seen, events>>

\* line 101, and the next iteration or the end of the loops
WriteRate ==
    /\ pc = "rate"
    /\ voices' = set_bend_rate(voices, Head(todo), mod_val)
    /\ writes' = [writes EXCEPT ![Head(todo)].bend_rate = @ + 1]
    /\ todo' = Tail(todo)
    /\ pc' = IF Tail(todo) = <<>> THEN "receive" ELSE "depth"
    /\ UNCHANGED <<notes_pressed, pressed, released, wave_i, num_oscs, mod_val,
                   raised, rng, old_mod, seen, events>>

\* the renderer reads the vibrato fields of the voices it is sounding
Render ==
    /\ seen' = [id \in pressed |-> <<voices[id].bend_depth, voices[id].bend_rate>>]
    /\ seen' # seen
    /\ UNCHANGED <<notes_pressed, voices, pressed, released, wave_i, num_oscs,
                   mod_val, raised, rng, pc, todo, old_mod, writes, events>>

NextRender ==
    \/ RecvNoteOn
    \/ RecvNoteOff
    \/ RecvNumOscs
    \/ ModBegin
    \/ WriteDepth
    \/ WriteRate
    \/ Render

SpecRender == Init /\ [][NextRender]_vars

\* ------------------------------------------------------------ properties
engine == <<notes_pressed, voices, pressed, released, wave_i, num_oscs, mod_val, raised, rng>>
modulation == <<wave_i, num_oscs, mod_val>>

\* The message the step being taken has received.
Received == events'[Len(events')]

HasEvents(n) == Len(events) >= n
Held(k) == k \in DOMAIN notes_pressed

\* C1: every voice pressed in the renderer and not yet released belongs to a
\* Note of the active note table (a re-trigger releases the voices it
\* replaces), so once no key is in the table no voice is pressed.
C1_NoPressedVoiceOutsideTable ==
    /\ pressed \subseteq TableVoices(notes_pressed)
    /\ (DOMAIN notes_pressed = {} => pressed = {})

\* C2: a note_on for key N leaves exactly one Note for N in the table, made
\* of num_oscs fresh voices (none that existed before the call) carrying the
\* waveform wave_i, with the values num_oscs and wave_i had at the call; and
\* in every state each voice of the table is listed once, under the key it
\* was created for.
C2_TableWellFormed ==
    /\ \A k \in DOMAIN notes_pressed :
          /\ \A i \in DOMAIN notes_pressed[k] : voices[notes_pressed[k][i]].notenum = k
          /\ Cardinality(Range(notes_pressed[k])) = Len(notes_pressed[k])
    /\ \A j, k \in DOMAIN notes_pressed :
          j # k => Range(notes_pressed[j]) \cap Range(notes_pressed[k]) = {}

C2_NoteOnStep ==
    IsNoteOn(Received) =>
        LET n == Received.note
        IN /\ n \in DOMAIN notes_pressed'
           /\ Len(notes_pressed'[n]) = num_oscs
           /\ Range(notes_pressed'[n]) \cap DOMAIN voices = {}
           /\ \A id \in Range(notes_pressed'[n]) :
                 /\ id \in DOMAIN voices'
                 /\ voices'[id].waveform = wave_i

C2_Retrigger == []C2_TableWellFormed /\ [][C2_NoteOnStep]_vars

\* a key is struck, a controller changes the oscillator count, the same key
\* is struck again and now holds the three voices of the new count
C2_Witness ==
    /\ HasEvents(3)
    /\ IsNoteOn(events[1])
    /\ events[2] = ControlChange(82, 64)
    /\ IsNoteOn(events[3]) /\ events[3].note = events[1].note
    /\ Held(events[3].note)
    /\ Len(notes_pressed[events[3].note]) = 3
    /\ Len(voices) = 4

\* C3: a note release (NoteOff, or NoteOn with velocity 0) for a key with no
\* Note in the table changes nothing: table, voices, renderer and modulation
\* state keep their values and no exception is raised.
C3_ReleaseStep ==
    (IsNoteRelease(Received) /\ Received.note \notin DOMAIN notes_pressed) =>
        /\ UNCHANGED engine
        /\ ~raised'

C3_StrayReleaseIsNoOp == [][C3_ReleaseStep]_vars

\* a held key released twice in a row
C3_Witness ==
    /\ HasEvents(3)
    /\ IsNoteOn(events[1])
    /\ IsNoteRelease(events[2]) /\ events[2].note = events[1].note
    /\ IsNoteRelease(events[3]) /\ events[3].note = events[1].note
    /\ Len(released) = 1
    /\ ~raised

\* C4: a note release for a key that has a Note removes that key only,
\* hands exactly the voices of that Note to synth.release, and leaves the
\* other Notes, every voice's fields and the modulation state as they were.
C4_ReleaseStep ==
    (IsNoteRelease(Received) /\ Received.note \in DOMAIN notes_pressed) =>
        LET n == Received.note
        IN /\ DOMAIN notes_pressed' = (DOMAIN notes_pressed) \ {n}
           /\ \A k \in DOMAIN notes_pressed' : notes_pressed'[k] = notes_pressed[k]
           /\ released' = released \o notes_pressed[n]
           /\ pressed' = pressed \ Range(notes_pressed[n])
           /\ Range(notes_pressed[n]) # {}
           /\ voices' = voices
           /\ UNCHANGED modulation

C4_ReleaseRemovesExactlyThatNote == [][C4_ReleaseStep]_vars

\* two keys held, one of them released: the other is still held and pressed
C4_Witness ==
    /\ HasEvents(3)
    /\ IsNoteRelease(events[3])
    /\ Cardinality(DOMAIN notes_pressed) = 1
    /\ released # <<>>
    /\ pressed = TableVoices(notes_pressed)
    /\ pressed # {}

\* C5: at every event boundary mod_val is value/127 for the last controller-1
\* value received (0 before any), and every voice of every Note in the table
\* has bend_depth = 0.5 * mod_val and bend_rate = 20 * mod_val.
ModWheelEvents == {i \in DOMAIN events : IsControlChange(events[i]) /\ events[i].control = 1}
LastModWheelValue ==
    IF ModWheelEvents = {} THEN 0
    ELSE events[CHOOSE i \in ModWheelEvents : \A j \in ModWheelEvents : j <= i].value

C5_VibratoFollowsModVal ==
    /\ 127 * mod_val = FP * LastModWheelValue
    /\ \A id \in TableVoices(notes_pressed) :
          /\ 2 * voices[id].bend_depth = mod_val
          /\ voices[id].bend_rate = 20 * mod_val

\* one Note created before the mod wheel moved and one after, both held
C5_Witness ==
    /\ HasEvents(3)
    /\ IsNoteOn(events[1])
    /\ events[2] = ControlChange(1, 64)
    /\ IsNoteOn(events[3]) /\ events[3].note # events[1].note
    /\ Cardinality(DOMAIN notes_pressed) = 2
    /\ mod_val = 128

\* C6: in every reachable state num_oscs is in 1..max_oscs and every Note of
\* the table owns between 1 and max_oscs voices.
C6_OscillatorCountInRange ==
    /\ num_oscs \in 1..max_oscs
    /\ \A k \in DOMAIN notes_pressed : Len(notes_pressed[k]) \in 1..max_oscs

\* C7: a controller-82 change leaves the table, the voices and the renderer
\* as they were; a Note stays in the table with the voices it was created
\* with through every event that is not a note-on or release of its own key;
\* and a note-on creates as many voices as num_oscs says at that moment.
C7_Step ==
    /\ (IsControlChange(Received) /\ Received.control = 82) =>
          UNCHANGED <<notes_pressed, voices, pressed, released, wave_i, mod_val>>
    /\ \A k \in DOMAIN notes_pressed :
          ((IsNoteOn(Received) \/ IsNoteRelease(Received)) /\ Received.note = k)
          \/ (k \in DOMAIN notes_pressed' /\ notes_pressed'[k] = notes_pressed[k])
    /\ IsNoteOn(Received) => Len(notes_pressed'[Received.note]) = num_oscs

C7_OscillatorCountIsProspective == [][C7_Step]_vars

\* a Note of one voice outlives two changes of the oscillator count
C7_Witness ==
    /\ HasEvents(3)
    /\ IsNoteOn(events[1])
    /\ events[2] = ControlChange(82, 127)
    /\ events[3] = ControlChange(82, 64)
    /\ num_oscs = 3
    /\ Held(events[1].note)
    /\ Len(notes_pressed[events[1].note]) = 1

\* C8: no event changes the waveform of a voice that already exists, a
\* note-on gives its voices the waveform wave_i selects at that moment, and
\* after note_on(60,64), ControlChange(83,127), note_on(62,64) the voices of
\* note 60 have waveform index 0 and those of note 62 index 4.
C8_Step ==
    /\ \A id \in DOMAIN voices :
          id \in DOMAIN voices' /\ voices'[id].waveform = voices[id].waveform
    /\ \A id \in (DOMAIN voices') \ (DOMAIN voices) : voices'[id].waveform = wave_i
    /\ (IsControlChange(Received) /\ Received.control = 83) =>
          UNCHANGED <<notes_pressed, voices, pressed, released, num_oscs, mod_val>>

C8_Scenario ==
    events = <<NoteOn(60, 64), ControlChange(83, 127), NoteOn(62, 64)>> =>
        /\ Held(60) /\ Held(62)
        /\ \A id \in Range(notes_pressed[60]) : voices[id].waveform = 0
        /\ \A id \in Range(notes_pressed[62]) : voices[id].waveform = Len(waveforms) - 1
        /\ Len(waveforms) - 1 = 4

C8_WaveformIsProspective == []C8_Scenario /\ [][C8_Step]_vars

C8_Witness ==
    /\ events = <<NoteOn(60, 64), ControlChange(83, 127), NoteOn(62, 64)>>
    /\ wave_i = 4
    /\ Held(60) /\ Held(62)

\* C9: in every reachable state, for every key, the loop body maps
\* NoteOn(key, velocity 0) and NoteOff(key, any velocity) to the same engine
\* state, and a NoteOn with velocity 0 constructs no voice while a NoteOn
\* with a velocity above 0 constructs at least one.
C9_ZeroVelocityIsNoteOff ==
    \A n \in NoteNums :
       /\ \A v \in AllVelocities :
             LoopBody(State, NoteOn(n, 0)) = LoopBody(State, NoteOff(n, v))
       /\ LoopBody(State, NoteOn(n, 0)).voices = voices
       /\ \A v \in AllVelocities \ {0} :
             Len(LoopBody(State, NoteOn(n, v)).voices) > Len(voices)

\* a held key released by a NoteOn of velocity 0
C9_Witness ==
    /\ HasEvents(2)
    /\ IsNoteOn(events[1])
    /\ events[2] = NoteOn(events[1].note, 0)
    /\ ~Held(events[1].note)
    /\ Len(released) = 1 /\ Len(voices) = 1

\* C10: in every reachable state the loop body maps a ControlChange on any
\* controller other than 1, 82 and 83, and any message that is not a NoteOn,
\* NoteOff or ControlChange (no message included), to the unchanged engine
\* state.
C10_IgnoredMessages ==
    /\ \A c \in AllControls \ {1, 82, 83}, val \in CtrlValues :
          LoopBody(State, ControlChange(c, val)) = State
    /\ \A t \in AllTypes : LoopBody(State, OtherMsg(t)) = State

\* a held Note survives two ignored messages
C10_Witness ==
    /\ HasEvents(3)
    /\ IsNoteOn(events[1])
    /\ events[2] = ControlChange(7, 127)
    /\ events[3] = OtherMsg("None")
    /\ pressed = {1} /\ Held(events[1].note)
    /\ released = <<>>

ControlEvents(c) ==
    {i \in DOMAIN events : IsControlChange(events[i]) /\ events[i].control = c}
LastControlEvent(c) ==
    events[CHOOSE i \in ControlEvents(c) : \A j \in ControlEvents(c) : j <= i]
Clamp(x, lo, hi) == IF x < lo THEN lo ELSE IF x > hi THEN hi ELSE x

C13_Rounded ==
    ControlEvents(83) # {} =>
        LET raw == LastControlEvent(83).value
            rounded == (2 * raw * (Len(waveforms) - 1) + 127) \div (2 * 127)
        IN wave_i = Clamp(rounded, 0, Len(waveforms) - 1)

\* C13 (amended): after a ControlChange on controller 83 with value raw,
\* wave_i is (raw/127) * (waveform_count - 1) truncated to an integer, that
\* is wave_i <= raw*4/127 < wave_i + 1, which lies in 0..4 without a clamp
\* (4 only for raw = 127).  Before any such message it is 0.
C13_Truncated ==
    IF ControlEvents(83) = {} THEN wave_i = 0
    ELSE LET raw == LastControlEvent(83).value
         IN /\ 127 * wave_i <= raw * (Len(waveforms) - 1)
            /\ raw * (Len(waveforms) - 1) < 127 * (wave_i + 1)
            /\ wave_i \in 0..(Len(waveforms) - 1)
            /\ (wave_i = Len(waveforms) - 1 <=> raw = 127)
            /\ Len(waveforms) = 5

\* value 126: 3.97 truncates to 3 where rounding would give 4
C13_Witness ==
    /\ events = <<ControlChange(83, 126)>>
    /\ wave_i = 3

\* C14: the envelope of every voice has a non-negative attack_time and the
\* constants decay_time 0.05, release_time 0.8, attack_level 1 and
\* sustain_level 0.8; the attack_time of a voice created by a NoteOn of
\* velocity v is max(0, 2*(127 - 1.2*v)/127), no shorter than the attack
\* time of any higher velocity in 0..127 and no longer than that of any
\* lower one.
C14_AttackTime ==
    /\ \A id \in DOMAIN voices :
          /\ voices[id].envelope.attack_time >= 0
          /\ voices[id].envelope.decay_time * 100 = 5 * 100
          /\ voices[id].envelope.release_time * 10 = 8 * 100
          /\ voices[id].envelope.attack_level = 100
          /\ voices[id].envelope.sustain_level * 10 = 8 * 100
    /\ (events # <<>> /\ IsNoteOn(events[1])) =>
          LET v == events[1].velocity
              a == voices[1].envelope.attack_time
          IN /\ a >= 0
             /\ a >= 2 * (1270 - 12 * v)
             /\ (a = 0 \/ a = 2 * (1270 - 12 * v))
             /\ \A w \in MidiValues :
                   /\ AttackTime(w) >= 0
                   /\ (w > v => AttackTime(w) <= a)
                   /\ (w < v => AttackTime(w) >= a)

\* velocity 127 gives attack time 0, velocity 100 a positive one
C14_Witness ==
    /\ HasEvents(2)
    /\ IsNoteOn(events[1]) /\ events[1].velocity = 127
    /\ IsNoteOn(events[2]) /\ events[2].velocity = 100
    /\ voices[1].envelope.attack_time = 0
    /\ voices[2].envelope.attack_time = 140

\* C16: as the header comment says, a ControlChange on controller 83 sets
\* the number of oscillators (1..5) and leaves the waveform alone, and one
\* on controller 82 selects the waveform and leaves the number of
\* oscillators alone.
C16_Step ==
    /\ (IsControlChange(Received) /\ Received.control = 83) =>
          (wave_i' = wave_i /\ num_oscs' \in 1..max_oscs)
    /\ (IsControlChange(Received) /\ Received.control = 82) =>
          (num_oscs' = num_oscs /\ wave_i' \in 0..(Len(waveforms) - 1))

C16_ControllersAsDocumented == [][C16_Step]_vars

\* C17: in every reachable state wave_i is an index of waveforms (0..4), no
\* IndexError has been raised, and every voice was given a waveform of the
\* tuple.
C17_WaveIndexInRange ==
    /\ wave_i \in 0..(Len(waveforms) - 1)
    /\ ~raised
    /\ \A id \in DOMAIN voices : voices[id].waveform \in 0..(Len(waveforms) - 1)
    /\ Len(waveforms) - 1 = 4

\* the largest controller value, then a note-on that looks the waveform up
C17_Witness ==
    /\ HasEvents(2)
    /\ events[1] = ControlChange(83, 127)
    /\ IsNoteOn(events[2])
    /\ wave_i = 4
    /\ voices[1].waveform = 4

\* C19: every entry of notes_pressed is a non-empty list, and after a note
\* release has been handled its key is not in notes_pressed.
C19_EntriesNonEmpty ==
    \A k \in DOMAIN notes_pressed : notes_pressed[k] # <<>>

C19_ReleaseStep ==
    IsNoteRelease(Received) => Received.note \notin DOMAIN notes_pressed'

C19_TruthinessIsPresence == []C19_EntriesNonEmpty /\ [][C19_ReleaseStep]_vars

\* the smallest oscillator count, a note-on and the release of that key
C19_Witness ==
    /\ HasEvents(3)
    /\ events[1] = ControlChange(82, 0)
    /\ IsNoteOn(events[2])
    /\ IsNoteRelease(events[3]) /\ events[3].note = events[2].note
    /\ DOMAIN notes_pressed = {}
    /\ released = <<1>>

\* C20: every voice of the table is pressed in the renderer and has not been
\* handed to synth.release; no voice is handed to synth.release twice; no
\* released voice is pressed or in the table.
C20_TableVoicesArePressed ==
    /\ TableVoices(notes_pressed) \subseteq pressed
    /\ TableVoices(notes_pressed) \cap Range(released) = {}
    /\ pressed \cap Range(released) = {}
    /\ Cardinality(Range(released)) = Len(released)

\* a key struck, released and struck again
C20_Witness ==
    /\ HasEvents(3)
    /\ IsNoteOn(events[1])
    /\ IsNoteRelease(events[2]) /\ events[2].note = events[1].note
    /\ IsNoteOn(events[3]) /\ events[3].note = events[1].note
    /\ released = <<1>>
    /\ notes_pressed[events[1].note] = <<2>>
    /\ pressed = {2}

\* C15: voice i (from 0) of every Note has frequency
\* f * (1 + osc_detune*i + jitter) with f = midi_to_hz of its key and a
\* jitter in [0, 0.001); so it is within 0.2% of f * (1 + 0.01*i), and the
\* voices of a Note have pairwise distinct frequencies.  After controller 82
\* has set three oscillators, every Note has exactly three voices.
Nominal(i) == Micro + osc_detune * i
Abs(x) == IF x < 0 THEN -x ELSE x

C15_DetunedFrequencies ==
    /\ \A k \in DOMAIN notes_pressed :
          LET l == notes_pressed[k]
          IN /\ \A i \in DOMAIN l :
                   /\ voices[l[i]].notenum = k
                   /\ voices[l[i]].ratio - Nominal(i - 1) >= 0
                   /\ (voices[l[i]].ratio - Nominal(i - 1)) * 1000 < Micro
                   /\ Abs(voices[l[i]].ratio - Nominal(i - 1)) * 1000 <= 2 * Nominal(i - 1)
             /\ \A i, j \in DOMAIN l : i # j => voices[l[i]].ratio # voices[l[j]].ratio
             /\ (events[1] \in {ControlChange(82, raw) : raw \in 51..76}) => Len(l) = 3
    /\ osc_detune * 100 = Micro

\* three oscillators, then note_on(60, 100); the generator gives the
\* largest jitter to the first voice and the least to the second
C15_Witness ==
    /\ events = <<ControlChange(82, 64), NoteOn(60, 100)>>
    /\ Len(notes_pressed[60]) = 3
    /\ voices[1].ratio = Micro + 999
    /\ voices[2].ratio = Micro + osc_detune
    /\ voices[3].ratio = Micro + 2 * osc_detune + 500

\* C18: while a controller 1 change is applied with the renderer reading in
\* between, each vibrato field of each voice of the table is written at most
\* once, and exactly once when the change is complete; it holds its value
\* for the mod_val before the change or for the new mod_val and nothing
\* else; a voice the loops have finished holds both new values, the voice
\* between its two writes holds the new depth and the old rate, a voice not
\* yet visited holds both old values; and when the loop is back at receive
\* every voice of the table holds the new depth and the new rate.
Visited == DOMAIN writes \ Range(todo)

C18_FieldByField ==
    /\ \A id \in DOMAIN writes :
          /\ writes[id].bend_depth <= 1 /\ writes[id].bend_rate <= 1
          /\ pc = "receive" => (writes[id].bend_depth = 1 /\ writes[id].bend_rate = 1)
    /\ \A id \in TableVoices(notes_pressed) :
          /\ 2 * voices[id].bend_depth \in {old_mod, mod_val}
          /\ voices[id].bend_rate \in {20 * old_mod, 20 * mod_val}
          /\ pc = "receive" =>
                (2 * voices[id].bend_depth = mod_val /\ voices[id].bend_rate = 20 * mod_val)
    /\ pc # "receive" =>
          /\ DOMAIN writes = TableVoices(notes_pressed)
          /\ \A id \in Visited :
                2 * voices[id].bend_depth = mod_val /\ voices[id].bend_rate = 20 * mod_val
          /\ \A i \in 2..Len(todo) :
                /\ 2 * voices[todo[i]].bend_depth = old_mod
                /\ voices[todo[i]].bend_rate = 20 * old_mod
          /\ voices[Head(todo)].bend_rate = 20 * old_mod
          /\ 2 * voices[Head(todo)].bend_depth = (IF pc = "rate" THEN mod_val ELSE old_mod)

\* the renderer read one voice with the new depth and the old rate beside a
\* voice not yet updated, and the change has since completed
C18_Witness ==
    /\ pc = "receive"
    /\ old_mod # mod_val
    /\ Cardinality(TableVoices(notes_pressed)) = 2
    /\ DOMAIN seen = TableVoices(notes_pressed)
    /\ \E a, b \in DOMAIN seen :
          /\ seen[a] = <<BendDepth(mod_val), BendRate(old_mod)>>
          /\ seen[b] = <<BendDepth(old_mod), BendRate(old_mod)>>
====
